---- MODULE Spec2Model ----
(***************************************************************************)
(* Model of the update listener of the telegram-bot crate (src/lib.rs):    *)
(* Api::post_request (envelope decoding), Listener::send_get_updates,      *)
(* Listener::listen (long-poll loop with cursor handled_until / confirmed) *)
(* and Listener::channel (listen on a worker thread, bridged by two mpsc   *)
(* channels).                                                              *)
(***************************************************************************)
EXTENDS Integers, Sequences, FiniteSets, TLC

\* ------------------------------------------------------------------ bounds
FirstId == 5    \* smallest update_id the remote side hands out
NumIds == 4     \* number of distinct update_ids the remote side hands out
MaxPolls == 3   \* polling fetches per listen run
MaxRuns == 2    \* listen calls on one Listener
MaxAcks == 2    \* results the consumer sends on the result channel

LastId == FirstId + NumIds - 1
Ids == FirstId..LastId

VARIABLES
    confirmed,      \* Listener.confirmed
    handled_until,  \* local `handled_until` of listen
    updates,        \* rest of the batch iterated by `for u in updates`
    pc,             \* position of the thread running listen
    ret,            \* value returned by the last listen call
    runs,           \* number of listen calls started
    log,            \* requests and handler calls of the current run, in order
    lastResp,       \* response the transport got for the run's last request
    lastRes,        \* what post_request returned for it
    everErr,        \* ids the handler returned Err for, in any run
    okPrev,         \* history kept by SpecRerun only: ids the handler
                    \* returned Ok for in earlier listen calls and that
                    \* are not below confirmed
    update_ch,      \* channel mode: updates sent and not yet received
    res_ch,         \* channel mode: results sent and not yet received
    rxDropped,      \* channel mode: the consumer dropped update_rx
    txDropped,      \* channel mode: the consumer dropped res_tx
    evSent,         \* channel mode: successful update_tx.send calls
    ackSent,        \* channel mode: results the consumer sent
    ackRecv,        \* channel mode: results the worker received
    seen            \* channel mode: updates the consumer received, in order

vars == <<confirmed, handled_until, updates, pc, ret, runs, log, lastResp,
          lastRes, everErr, okPrev, update_ch, res_ch, rxDropped, txDropped,
          evSent, ackSent, ackRecv, seen>>

listenVars == <<confirmed, handled_until, updates, pc, ret, log, lastResp,
                lastRes, everErr, okPrev>>
chanVars == <<update_ch, res_ch, rxDropped, txDropped, evSent, ackSent,
              ackRecv, seen>>

\* ------------------------------------------------------------ value types
\* Option<T>
None(dflt) == [some |-> FALSE, v |-> dflt]
Some(x) == [some |-> TRUE, v |-> x]

\* Result<Vec<Update>> of a request; kind is the Error variant
Ok(val) == [tag |-> "Ok", val |-> val, kind |-> "", msg |-> ""]
Err(kind, msg) == [tag |-> "Err", val |-> <<>>, kind |-> kind, msg |-> msg]

\* Result<ListeningAction> of a handler
Continue == [tag |-> "Ok", act |-> "Continue", kind |-> "", msg |-> ""]
Stop == [tag |-> "Ok", act |-> "Stop", kind |-> "", msg |-> ""]
HandlerErr == [tag |-> "Err", act |-> "", kind |-> "Handler", msg |-> "h"]
HandlerResults == {Continue, Stop, HandlerErr}

\* Result<()> of listen; "Running" while no call has returned
NoRet == [tag |-> "Running", kind |-> "", msg |-> ""]
RetOk == [tag |-> "Ok", kind |-> "", msg |-> ""]
RetErr(kind, msg) == [tag |-> "Err", kind |-> kind, msg |-> msg]

\* -------------------------------------------------------------- transport
\* The ascending sequence of the elements of S
SeqOf(S) ==
    CHOOSE s \in [1..Cardinality(S) -> S] :
        \A i, j \in 1..Cardinality(S) : i < j => s[i] < s[j]

\* Batches the remote side may answer to getUpdates(offset): ascending
\* identifiers, none below the offset
Batches(offset) == { SeqOf(S) : S \in SUBSET {i \in Ids : i >= offset} }

\* What the HTTP exchange of one request can produce
Body(ok, result, description) ==
    [kind |-> "Body", ok |-> ok, result |-> result, description |-> description]
TransportFault == [kind |-> "TransportError", ok |-> FALSE,
                   result |-> None(<<>>), description |-> None("")]
BadBody == [kind |-> "DecodeError", ok |-> FALSE,
            result |-> None(<<>>), description |-> None("")]
NoResp == [kind |-> "None", ok |-> FALSE,
           result |-> None(<<>>), description |-> None("")]

\* a body is any combination of ok, result and description; a body that is
\* not ok carries no result or an empty one
Responses(results) ==
    {TransportFault, BadBody} \cup
    { Body(TRUE, r, d) : r \in {None(<<>>)} \cup {Some(b) : b \in results},
                         d \in {None(""), Some("e")} } \cup
    { Body(FALSE, r, d) : r \in {None(<<>>), Some(<<>>)},
                          d \in {None(""), Some("e")} }

\* post_request matching on the description before looking at `ok`
post_request_DescFirst(resp) ==
    IF resp.kind = "TransportError" THEN Err("Transport", "t")
    ELSE IF resp.kind = "DecodeError" THEN Err("Decode", "j")
    ELSE IF resp.description.some
        THEN Err("Api", resp.description.v)
    ELSE IF resp.ok /\ resp.result.some
        THEN Ok(resp.result.v)
    ELSE Err("InvalidState", "Invalid server response")

\* Api::post_request, from the response on
post_request(resp) ==
    IF resp.kind = "TransportError" THEN Err("Transport", "t")
    ELSE IF resp.kind = "DecodeError" THEN Err("Decode", "j")
    ELSE IF ~resp.ok /\ resp.description.some
        THEN Err("Api", resp.description.v)
    ELSE IF resp.ok /\ resp.result.some
        THEN Ok(resp.result.v)
    ELSE Err("InvalidState", "Invalid server response")

\* Listener::send_get_updates
send_get_updates(offset, resp) == post_request(resp)

\* ---------------------------------------------------------------- logging
\* n: offset of a request or update_id of a call; r: outcome; b: the batch a
\* polling fetch returned
PollEntry(offset, r) ==
    [t |-> "poll", n |-> offset, r |-> r.tag, b |-> r.val]
CallEntry(id, res) ==
    [t |-> "call", n |-> id, r |-> IF res.tag = "Ok" THEN res.act ELSE "Err",
     b |-> <<>>]
AckEntry(offset, r) == [t |-> "fack", n |-> offset, r |-> r.tag, b |-> <<>>]

Idx(t) == {i \in DOMAIN log : log[i].t = t}

\* ------------------------------------------------------------------- Init
Api_listener ==
    /\ confirmed = 0
    /\ handled_until = 0
    /\ updates = <<>>
    /\ pc = "idle"
    /\ ret = NoRet
    /\ runs = 0
    /\ log = <<>>
    /\ lastResp = NoResp
    /\ lastRes = Ok(<<>>)
    /\ everErr = {}
    /\ okPrev = {}

Init ==
    /\ Api_listener
    /\ update_ch = <<>>
    /\ res_ch = <<>>
    /\ rxDropped = FALSE
    /\ txDropped = FALSE
    /\ evSent = 0
    /\ ackSent = 0
    /\ ackRecv = 0
    /\ seen = <<>>

\* ----------------------------------------------------------------- listen
\* ids of the current run the handler returned Ok for
OkIds == {log[i].n : i \in {j \in Idx("call") : log[j].r # "Err"}}

\* handled_until starting from 0 in every listen call
SeedHandled_Zero(c) == 0

\* `let mut handled_until = self.confirmed;`
SeedHandled(c) == c

\* listen is entered: handled_until = self.confirmed
ListenEntry ==
    /\ pc \in {"idle", "returned"}
    /\ runs < MaxRuns
    /\ runs' = runs + 1
    /\ handled_until' = SeedHandled(confirmed)
    /\ pc' = "poll"
    /\ ret' = NoRet
    /\ log' = <<>>
    /\ updates' = <<>>
    /\ lastResp' = NoResp
    /\ lastRes' = Ok(<<>>)
    /\ UNCHANGED <<confirmed, everErr>>

StartListen == ListenEntry /\ UNCHANGED okPrev

\* the same entry, also recording which handled updates the remote side may
\* still return (those not below confirmed)
StartListenRec ==
    /\ ListenEntry
    /\ okPrev' = {i \in okPrev \cup OkIds : i >= confirmed}

\* offset of the polling fetch
PollOffset(hu) == hu

\* a failed polling fetch ending the run with its error
PollFailed_Return(e) ==
    /\ pc' = "returned"
    /\ ret' = RetErr(e.kind, e.msg)
    /\ UNCHANGED <<confirmed, updates>>

\* only a transport error retried
PollFailed_ReturnPersistent(e) ==
    IF e.kind = "Transport"
    THEN UNCHANGED <<confirmed, updates, pc, ret>>
    ELSE PollFailed_Return(e)

\* `Err(e) => { println!(..); error!(..); continue }`
PollFailed(e) == UNCHANGED <<confirmed, updates, pc, ret>>

\* one polling fetch and the match on its result
PollStep ==
    /\ pc = "poll"
    /\ Cardinality(Idx("poll")) < MaxPolls
    /\ \E resp \in Responses(Batches(PollOffset(handled_until))) :
        LET r == send_get_updates(PollOffset(handled_until), resp) IN
        /\ lastResp' = resp
        /\ lastRes' = r
        /\ log' = Append(log, PollEntry(PollOffset(handled_until), r))
        /\ IF r.tag = "Err"
           THEN PollFailed(r)
           ELSE /\ confirmed' = handled_until
                /\ updates' = r.val
                /\ pc' = IF r.val = <<>> THEN "poll" ELSE "dispatch"
                /\ UNCHANGED ret
    /\ UNCHANGED <<handled_until, runs, everErr, okPrev>>

\* iterating the batch from its end
NextUpdate_Last(ups) == ups[Len(ups)]

\* the update `for u in updates` hands to the handler next
NextUpdate(ups) == Head(ups)

\* handled_until never advanced
NextHandled_NoAdvance(hu, update_id) == hu

\* handled_until advanced only past a larger identifier
NextHandled_Strict(hu, update_id) == IF update_id > hu THEN update_id + 1 ELSE hu

\* handled_until set to the identifier itself
NextHandled_Same(hu, update_id) == IF update_id >= hu THEN update_id ELSE hu

\* handled_until advanced two past the identifier
NextHandled_Skip(hu, update_id) == IF update_id >= hu THEN update_id + 2 ELSE hu

\* `if update_id >= handled_until { handled_until = update_id + 1 }`
NextHandled(hu, update_id) == IF update_id >= hu THEN update_id + 1 ELSE hu

\* the failing update acknowledged as well
ErrAckOffset_Next(hu, update_id) == update_id + 1

\* the force-acknowledge fetch repeating the offset of the first poll
ErrAckOffset_Zero(hu, update_id) == 0

\* offset of the force-acknowledge fetch after a handler error
ErrAckOffset(hu, update_id) == hu

\* confirmed set past the failing update
ErrConfirmed_Next(hu, update_id) == update_id + 1

\* `self.confirmed = handled_until;` after the force-acknowledge fetch of a
\* handler error
ErrConfirmed(hu, update_id) == hu

\* the handler's error returned whatever the force-acknowledge fetch did
ErrReturn_Handler(e, r) == RetErr(e.kind, e.msg)

\* value listen returns after a handler error e, r being the result of the
\* force-acknowledge fetch (`try!` returns the fetch's error)
ErrReturn(e, r) ==
    IF r.tag = "Err" THEN RetErr(r.kind, r.msg) ELSE RetErr(e.kind, e.msg)

\* the result of the force-acknowledge fetch ignored
StopReturn_Ignore(r) == RetOk

\* value listen returns after Ok(Stop)
StopReturn(r) == IF r.tag = "Err" THEN RetErr(r.kind, r.msg) ELSE RetOk

\* the body of `for u in updates` once the handler returned res for the
\* first update of the rest of the batch
HandleResult(res) ==
    LET update_id == NextUpdate(updates) IN
    IF res.tag = "Err" THEN
        \E resp \in Responses({<<>>}) :
            LET off == ErrAckOffset(handled_until, update_id)
                r == send_get_updates(off, resp) IN
            /\ lastResp' = resp
            /\ lastRes' = r
            /\ log' = log \o <<CallEntry(update_id, res), AckEntry(off, r)>>
            /\ confirmed' = IF r.tag = "Err" THEN confirmed
                          ELSE ErrConfirmed(handled_until, update_id)
            /\ ret' = ErrReturn(res, r)
            /\ pc' = "returned"
            /\ updates' = <<>>
            /\ everErr' = everErr \cup {update_id}
            /\ UNCHANGED <<handled_until, okPrev>>
    ELSE IF res.act = "Stop" THEN
        \E resp \in Responses({<<>>}) :
            LET hu == NextHandled(handled_until, update_id)
                r == send_get_updates(hu, resp) IN
            /\ lastResp' = resp
            /\ lastRes' = r
            /\ log' = log \o <<CallEntry(update_id, res), AckEntry(hu, r)>>
            /\ handled_until' = hu
            /\ confirmed' = IF r.tag = "Err" THEN confirmed ELSE hu
            /\ ret' = StopReturn(r)
            /\ pc' = "returned"
            /\ updates' = <<>>
            /\ UNCHANGED <<everErr, okPrev>>
    ELSE
        /\ handled_until' = NextHandled(handled_until, update_id)
        /\ updates' = Tail(updates)
        /\ pc' = IF Tail(updates) = <<>> THEN "poll" ELSE "dispatch"
        /\ log' = Append(log, CallEntry(update_id, res))
        /\ UNCHANGED <<confirmed, ret, lastResp, lastRes, everErr, okPrev>>

\* listen with a closure handler: the handler runs and returns res
Handle ==
    /\ pc = "dispatch"
    /\ \E res \in HandlerResults : HandleResult(res)
    /\ UNCHANGED runs

Next ==
    \/ StartListen /\ UNCHANGED chanVars
    \/ PollStep /\ UNCHANGED chanVars
    \/ Handle /\ UNCHANGED chanVars

Spec == Init /\ [][Next]_vars

\* repeated listen calls with the history of handled updates
NextRerun ==
    \/ StartListenRec /\ UNCHANGED chanVars
    \/ PollStep /\ UNCHANGED chanVars
    \/ Handle /\ UNCHANGED chanVars

SpecRerun == Init /\ [][NextRerun]_vars

\* ---------------------------------------------------------------- channel
\* thread::spawn: the worker enters listen; `self` is moved, so only once
Spawn ==
    /\ runs = 0
    /\ StartListen
    /\ UNCHANGED chanVars

\* the worker's polling fetch
WorkerPoll ==
    /\ PollStep
    /\ UNCHANGED chanVars

\* a failed send read as Ok(Continue)
SendFailResult_Continue == Continue

\* `if let Err(_) = update_tx.send(u) { return Ok(ListeningAction::Stop); }`
SendFailResult == Stop

\* handler, first half: update_tx.send(u); a failed send returns Ok(Stop)
HandlerSend ==
    /\ pc = "dispatch"
    /\ IF rxDropped
       THEN /\ HandleResult(SendFailResult)
            /\ UNCHANGED <<update_ch, evSent>>
       ELSE /\ update_ch' = Append(update_ch, NextUpdate(updates))
            /\ evSent' = evSent + 1
            /\ pc' = "recv"
            /\ UNCHANGED <<confirmed, handled_until, updates, ret, log,
                           lastResp, lastRes, everErr, okPrev>>
    /\ UNCHANGED <<runs, res_ch, rxDropped, txDropped, ackSent, ackRecv, seen>>

\* a hang-up of the result channel read as an error
RecvResult_Err(ch) == IF ch # <<>> THEN Head(ch) ELSE HandlerErr

\* a hang-up of the result channel read as Ok(Continue)
RecvResult_Continue(ch) == IF ch # <<>> THEN Head(ch) ELSE Continue

\* a received Err read like a hang-up
RecvResult_Swallow(ch) ==
    IF ch # <<>> /\ Head(ch).tag = "Ok" THEN Head(ch) ELSE Stop

\* `res_rx.recv().unwrap_or(Ok(ListeningAction::Stop))`
RecvResult(ch) == IF ch # <<>> THEN Head(ch) ELSE Stop

\* a received result left in the channel
RecvRest_Keep(ch) == ch

\* the result channel after recv
RecvRest(ch) == IF ch # <<>> THEN Tail(ch) ELSE ch

\* handler, second half: res_rx.recv() returns once a result is queued or
\* the sender is gone; the rest of the loop body follows
HandlerRecv ==
    /\ pc = "recv"
    /\ res_ch # <<>> \/ txDropped
    /\ HandleResult(RecvResult(res_ch))
    /\ res_ch' = RecvRest(res_ch)
    /\ ackRecv' = IF res_ch # <<>> THEN ackRecv + 1 ELSE ackRecv
    /\ UNCHANGED <<runs, update_ch, rxDropped, txDropped, evSent, ackSent, seen>>

\* the consumer receives an update from update_rx
ConsumerRecv ==
    /\ ~rxDropped
    /\ update_ch # <<>>
    /\ seen' = Append(seen, Head(update_ch))
    /\ update_ch' = Tail(update_ch)
    /\ UNCHANGED <<listenVars, runs, res_ch, rxDropped, txDropped, evSent,
                   ackSent, ackRecv>>

\* the consumer sends a result on res_tx (the send fails once the worker
\* has returned and dropped res_rx)
ConsumerAck ==
    /\ ~txDropped
    /\ ackSent < MaxAcks
    /\ pc # "returned"
    /\ \E res \in HandlerResults : res_ch' = Append(res_ch, res)
    /\ ackSent' = ackSent + 1
    /\ UNCHANGED <<listenVars, runs, update_ch, rxDropped, txDropped, evSent,
                   ackRecv, seen>>

\* the consumer drops update_rx
DropReceiver ==
    /\ ~rxDropped
    /\ rxDropped' = TRUE
    /\ update_ch' = <<>>
    /\ UNCHANGED <<listenVars, runs, res_ch, txDropped, evSent, ackSent,
                   ackRecv, seen>>

\* the consumer drops res_tx
DropSender ==
    /\ ~txDropped
    /\ txDropped' = TRUE
    /\ UNCHANGED <<listenVars, runs, update_ch, res_ch, rxDropped, evSent,
                   ackSent, ackRecv, seen>>

NextChannel ==
    \/ Spawn
    \/ WorkerPoll
    \/ HandlerSend
    \/ HandlerRecv
    \/ ConsumerRecv
    \/ ConsumerAck
    \/ DropReceiver
    \/ DropSender

SpecChannel == Init /\ [][NextChannel]_vars

\* ================================================================ claims
Last(s) == s[Len(s)]
PollOk == {i \in Idx("poll") : log[i].r = "Ok"}
ErrCalls == {i \in Idx("call") : log[i].r = "Err"}
StopCalls == {i \in Idx("call") : log[i].r = "Stop"}
\* the polling fetch that returned the batch of the call at index i
BatchPoll(i) == CHOOSE p \in PollOk : p < i /\ \A q \in PollOk : q < i => q <= p
FullBatch == SeqOf(Ids)

\* C1: within one run of listen no update_id is passed to the handler more
\* than once, whatever the handler's Continue results and whichever polling
\* fetches fail (the remote side returns no identifier below the offset).
C1_NoDuplicateCall ==
    \A i, j \in Idx("call") : i # j => log[i].n # log[j].n

\* a run with a failed polling fetch between two handled batches
C1_Witness ==
    \E i, j \in Idx("call"), f \in Idx("poll") :
        /\ i < f /\ f < j
        /\ log[f].r = "Err"
        /\ log[j].n > log[i].n

\* C2: after a batch whose events all got Ok(Continue), the next getUpdates
\* request carries the offset (last identifier of the batch) + 1.
C2_NextOffset ==
    \A p \in Idx("poll") :
        (p > 1 /\ log[p - 1].t = "call") =>
            /\ log[p - 1].r = "Continue"
            /\ log[p - 1].n = Last(log[BatchPoll(p - 1)].b)
            /\ log[p].n = log[p - 1].n + 1

\* a batch of two events handled with Continue, followed by the next poll
C2_Witness ==
    \E p \in Idx("poll") :
        /\ p > 3
        /\ log[p - 1].t = "call" /\ log[p - 2].t = "call"
        /\ Len(log[p - 3].b) = 2
        /\ log[p].n = log[p - 1].n + 1

\* C3 as stated: after Ok(Stop) on update k listen issues a force-acknowledge
\* fetch at k + 1, returns Ok(()) and calls the handler for no later event.
C3_Original ==
    \A i \in StopCalls :
        /\ Len(log) = i + 1
        /\ log[i + 1].t = "fack"
        /\ log[i + 1].n = log[i].n + 1
        /\ pc = "returned"
        /\ ret = RetOk

\* C3 amended: after Ok(Stop) on update k listen issues exactly one
\* force-acknowledge fetch, at offset k + 1, and returns without calling the
\* handler for a later event of the batch; it returns Ok(()) if that fetch
\* succeeded and the fetch's error otherwise.
C3_Stop ==
    \A i \in StopCalls :
        /\ Len(log) = i + 1
        /\ log[i + 1].t = "fack"
        /\ log[i + 1].n = log[i].n + 1
        /\ pc = "returned"
        /\ updates = <<>>
        /\ (log[i + 1].r = "Ok" => ret = RetOk)
        /\ (log[i + 1].r = "Err" =>
                /\ ret.tag = "Err"
                /\ ret.kind \in {"Transport", "Decode", "Api", "InvalidState"})

\* Stop on FirstId in the batch [FirstId, FirstId + 1]
C3_Witness ==
    /\ Len(log) = 3
    /\ log[1].t = "poll" /\ log[1].b = <<FirstId, FirstId + 1>>
    /\ log[2] = CallEntry(FirstId, Stop)
    /\ log[3].t = "fack" /\ log[3].n = FirstId + 1 /\ log[3].r = "Ok"
    /\ ret = RetOk

\* C4 as stated: after a handler error on update k the force-acknowledge
\* fetch carries offset k + 1.
C4_Original ==
    \A i \in ErrCalls :
        /\ Len(log) = i + 1
        /\ log[i + 1].t = "fack"
        /\ log[i + 1].n = log[i].n + 1

\* C4 amended: after a handler error the force-acknowledge fetch carries
\* handled_until: the identifier of the last event handled with Continue
\* plus one (7 for an error on 7 in [5, 6, 7, 8]), or, when the failing
\* event is the first of its batch, the offset of the polling fetch.
C4_ErrAckOffset ==
    \A i \in ErrCalls :
        /\ Len(log) = i + 1
        /\ log[i + 1].t = "fack"
        /\ log[i + 1].n = IF log[i - 1].t = "call"
                          THEN log[i - 1].n + 1
                          ELSE log[i - 1].n
        /\ log[i + 1].n = handled_until

\* error on the third event of the full batch: acknowledged at its identifier
C4_Witness ==
    /\ Len(log) = 5
    /\ log[1].t = "poll" /\ log[1].b = FullBatch /\ Len(FullBatch) >= 4
    /\ log[2].r = "Continue" /\ log[3].r = "Continue"
    /\ log[4] = CallEntry(FirstId + 2, HandlerErr)
    /\ log[5].t = "fack" /\ log[5].n = FirstId + 2

\* C5: after a handler error on update k the update is not considered
\* handled: the force-acknowledge offset and Listener.confirmed afterwards do
\* not exceed k, and after the error return the next listen call fetches from
\* confirmed, so the remote side may hand k to the handler again.
C5_ErrNotHandled ==
    /\ [](\A i \in ErrCalls :
            /\ log[i + 1].t = "fack"
            /\ log[i + 1].n <= log[i].n
            /\ confirmed <= log[i].n
            /\ pc = "returned")
    /\ [][(pc = "returned" /\ pc' = "poll") =>
            (handled_until' = confirmed /\ confirmed' = confirmed)]_vars

\* an update the handler failed on is handled in the following listen call
C5_Witness ==
    /\ runs = 2
    /\ \E i \in Idx("call") : log[i].n \in everErr /\ log[i].r = "Continue"

\* C6: whenever the handler returns Err(e), listen returns that same Err(e),
\* whatever the outcome of the force-acknowledge fetch.
C6_SameErr ==
    \A i \in ErrCalls :
        pc = "returned" => ret = RetErr(HandlerErr.kind, HandlerErr.msg)

\* C7: on a handler error the handler has been called exactly for the events
\* of that batch up to and including the failing one, in batch order; no
\* later event is handled and no further polling fetch is issued in the run.
C7_ErrPrefix ==
    \A i \in ErrCalls :
        LET p == BatchPoll(i) IN
        /\ i - p <= Len(log[p].b)
        /\ \A j \in (p + 1)..i :
               log[j].t = "call" /\ log[j].n = log[p].b[j - p]
        /\ \A j \in (p + 1)..(i - 1) : log[j].r = "Continue"
        /\ Len(log) = i + 1
        /\ log[i + 1].t = "fack"
        /\ pc = "returned"
        /\ updates = <<>>

\* error on the third event of the full batch, the fourth never handled
C7_Witness ==
    /\ Len(log) = 5
    /\ log[1].t = "poll" /\ log[1].b = FullBatch /\ Len(FullBatch) >= 4
    /\ log[2].n = FirstId /\ log[3].n = FirstId + 1
    /\ log[4] = CallEntry(FirstId + 2, HandlerErr)
    /\ pc = "returned"

\* C8: for a decodable body the result of post_request is determined by
\* (ok, result present, description present): ok with a result gives the
\* result, not-ok with a description d gives ApiError(d), and the two
\* remaining combinations give InvalidState.
C8_Envelope ==
    lastResp.kind = "Body" =>
        /\ (lastResp.ok /\ lastResp.result.some) =>
               lastRes = Ok(lastResp.result.v)
        /\ (~lastResp.ok /\ lastResp.description.some) =>
               lastRes = Err("Api", lastResp.description.v)
        /\ (lastResp.ok /\ ~lastResp.result.some) =>
               (lastRes.tag = "Err" /\ lastRes.kind = "InvalidState")
        /\ (~lastResp.ok /\ ~lastResp.description.some) =>
               (lastRes.tag = "Err" /\ lastRes.kind = "InvalidState")

\* a successful body that also carries a description decodes to its result
C8_Witness ==
    /\ lastResp.kind = "Body"
    /\ lastResp.ok /\ lastResp.result.some /\ lastResp.description.some
    /\ lastResp.result.v # <<>>
    /\ lastRes = Ok(lastResp.result.v)

\* a step in which the worker issues a getUpdates request
Requests == log' # log /\ log' # <<>> /\ Last(log').t \in {"poll", "fack"}

\* C9 as stated: the updates sent on the update channel exceed the results
\* the worker has consumed by at most one, and the worker issues no
\* getUpdates request while an update it sent is unacknowledged.
C9_Original ==
    [][/\ evSent' - ackRecv' \in {0, 1}
       /\ Requests => evSent' = ackRecv']_vars

\* C9 amended: the updates sent exceed the results consumed by at most one,
\* and the worker issues no polling fetch while an update it sent is
\* unacknowledged; the only request it issues in that situation is the
\* force-acknowledge fetch that ends the run after the consumer dropped the
\* result sender with no result queued (the hang-up is read as Ok(Stop)).
C9_SingleInFlight ==
    [][/\ evSent' - ackRecv' \in {0, 1}
       /\ (Requests /\ evSent' # ackRecv') =>
              /\ Last(log').t = "fack"
              /\ txDropped /\ res_ch = <<>>
              /\ pc' = "returned"]_vars

\* a second update was acknowledged by hang-up only: the run ended with a
\* force-acknowledge fetch while that update had no result
C9_Witness ==
    /\ evSent = 2 /\ ackRecv = 1
    /\ txDropped
    /\ pc = "returned"
    /\ Last(log).t = "fack"

\* C10 as stated: with N - 1 results sent by the consumer the N-th update is
\* not put on the update channel, so at most N - 1 updates are observed.
C10_Original == evSent <= ackSent /\ Len(seen) <= ackSent

\* C10 amended: with N - 1 results sent (all Continue) the worker puts at
\* most N updates on the update channel, the N-th before any result for it
\* exists; the consumer observes up to N updates before a further receive
\* blocks, and the (N + 1)-th update is not sent.
C10_Backpressure ==
    /\ evSent <= ackSent + 1
    /\ Len(seen) + Len(update_ch) <= evSent
    /\ Len(seen) <= ackSent + 1

\* three updates observed after two Continue results; the worker waits for
\* the third result and the update channel is empty
C10_Witness ==
    /\ Len(seen) = 3 /\ ackSent = 2 /\ ackRecv = 2
    /\ \A i \in Idx("call") : log[i].r = "Continue"
    /\ pc = "recv" /\ res_ch = <<>> /\ update_ch = <<>>
    /\ ~rxDropped /\ ~txDropped

\* the two entries a run ends with when the handler's result for update u is
\* res: the call and the force-acknowledge fetch at offset off
EndsWith(l, u, res, off) ==
    /\ Len(l) >= 2
    /\ l[Len(l) - 1] = CallEntry(u, res)
    /\ Last(l).t = "fack"
    /\ Last(l).n = off

\* C11 as stated: once the consumer dropped the update receiver the worker
\* terminates within one fetch cycle in every interleaving; in particular it
\* is never left blocked on the result receive after the drop.
C11_Original ==
    rxDropped => ~(pc = "recv" /\ res_ch = <<>> /\ ~txDropped)

\* C11 amended: once the consumer dropped the update receiver, the worker's
\* next send on the update channel fails and is treated as Ok(Stop): one
\* force-acknowledge fetch, then listen returns, without a panic.  A worker
\* that already waits for a result when the receiver is dropped stays
\* blocked until a result arrives or the result sender is dropped.
C11_DropStops ==
    [][/\ (rxDropped /\ pc = "dispatch" /\ pc' # "dispatch") =>
              /\ pc' = "returned"
              /\ evSent' = evSent
              /\ Len(log') = Len(log) + 2
              /\ EndsWith(log', NextUpdate(updates), Stop,
                          NextUpdate(updates) + 1)
              /\ ret'.tag \in {"Ok", "Err"}
       /\ (rxDropped /\ pc = "recv" /\ res_ch = <<>> /\ ~txDropped) =>
              (pc' = "recv" /\ log' = log)]_vars

\* two updates were sent and acknowledged with Continue, the receiver was
\* dropped, the third send failed and the run ended with a force-acknowledge
C11_Witness ==
    /\ rxDropped /\ ~txDropped
    /\ pc = "returned"
    /\ evSent = 2 /\ ackRecv = 2
    /\ Cardinality(Idx("call")) = 3
    /\ log[Len(log) - 1].r = "Stop"
    /\ Last(log).t = "fack"

\* C12 as stated: once the consumer dropped the result sender without a
\* result queued, the worker waiting for the result stays blocked: it issues
\* no further request and never returns.
C12_Original ==
    [][(pc = "recv" /\ res_ch = <<>> /\ txDropped) =>
           (pc' = "recv" /\ log' = log)]_vars

\* C12 amended: if the consumer drops the result sender without sending a
\* result for a delivered update, the worker's receive fails and is read as
\* Ok(Stop): the update counts as handled, the worker issues one
\* force-acknowledge fetch at its identifier + 1 and listen returns.  The
\* worker blocks only while the sender is alive and no result is queued.
C12_HangupStops ==
    [][(pc = "recv" /\ res_ch = <<>>) =>
           IF txDropped
           THEN pc' # "recv" =>
                    /\ pc' = "returned"
                    /\ ackRecv' = ackRecv
                    /\ Len(log') = Len(log) + 2
                    /\ EndsWith(log', NextUpdate(updates), Stop,
                                NextUpdate(updates) + 1)
           ELSE pc' = "recv" /\ log' = log]_vars

\* the first update was delivered, no result was ever sent, the sender was
\* dropped and the run ended with a force-acknowledge past that update
C12_Witness ==
    /\ txDropped
    /\ ackSent = 0 /\ evSent = 1
    /\ pc = "returned"
    /\ EndsWith(log, log[Len(log) - 1].n, Stop, log[Len(log) - 1].n + 1)

\* C13: during one listen run handled_until and Listener.confirmed never
\* decrease, and handled_until >= confirmed in every state.
C13_Monotone ==
    /\ [](handled_until >= confirmed)
    /\ [][runs' = runs =>
              (handled_until' >= handled_until /\ confirmed' >= confirmed)]_vars

\* both cursors advanced and apart: a batch confirmed at FirstId + 1 with
\* its first update handled
C13_Witness ==
    /\ pc = "dispatch"
    /\ confirmed = FirstId + 1
    /\ handled_until = FirstId + 2

\* a step in which a polling fetch fails
PollFails ==
    /\ Len(log') = Len(log) + 1
    /\ Last(log').t = "poll"
    /\ Last(log').r = "Err"

\* C14: after a failed polling fetch the next request is a polling fetch at
\* the same offset; the failure changes neither handled_until nor confirmed,
\* calls no handler and is not returned, however many failures follow.
C14_Retry ==
    /\ [](\A p \in Idx("poll") :
              (log[p].r = "Err" /\ p < Len(log)) =>
                  (log[p + 1].t = "poll" /\ log[p + 1].n = log[p].n))
    /\ [][PollFails =>
              /\ UNCHANGED <<handled_until, confirmed, pc, ret, updates>>
              /\ Last(log').n = handled_until
              /\ pc' = "poll"
              /\ ret' = NoRet]_vars

\* two failures in a row, then a successful poll at the same offset
C14_Witness ==
    \E p \in Idx("poll") :
        /\ p + 2 <= Len(log)
        /\ log[p].r = "Err" /\ log[p + 1].r = "Err"
        /\ log[p + 2].t = "poll" /\ log[p + 2].r = "Ok"
        /\ log[p + 2].n = log[p].n
        /\ log[p + 2].b # <<>>

C16_NeverAgain ==
    /\ \A i \in Idx("call") : log[i].n \notin okPrev
    /\ \A i, j \in Idx("call") :
           (i < j /\ log[i].r # "Err") => log[j].n # log[i].n

\* C17: listen returns only after the handler returned Stop or an error:
\* while every handler result is Continue it has not returned, whatever
\* polling fetches succeeded or failed, and it returns Ok(()) only after a
\* Stop whose force-acknowledge fetch succeeded.
C17_ReturnsOnlyAfter ==
    /\ (pc = "returned") <=> (ret # NoRet)
    /\ pc = "returned" =>
           \E i \in Idx("call") : log[i].r \in {"Stop", "Err"}
    /\ (\A i \in Idx("call") : log[i].r = "Continue") =>
           (pc # "returned" /\ ret = NoRet)
    /\ ret = RetOk =>
           /\ Len(log) >= 2
           /\ log[Len(log) - 1].t = "call" /\ log[Len(log) - 1].r = "Stop"
           /\ Last(log).t = "fack" /\ Last(log).r = "Ok"

\* three polling fetches, one of them failed, two updates handled with
\* Continue: listen is still running
C17_Witness ==
    /\ Cardinality(Idx("poll")) >= 3
    /\ \E p \in Idx("poll") : log[p].r = "Err"
    /\ Cardinality(Idx("call")) >= 2
    /\ \A i \in Idx("call") : log[i].r = "Continue"
    /\ pc = "poll" /\ ret = NoRet

OkRequests == {i \in DOMAIN log : log[i].t \in {"poll", "fack"} /\ log[i].r = "Ok"}

\* C19: Listener.confirmed is 0 or the offset of the most recent getUpdates
\* request (polling or force-acknowledge) that succeeded; a failed request
\* leaves it unchanged, and a listen call starts fetching at confirmed.
C19_Confirmed ==
    /\ [](runs = 0 => confirmed = 0)
    /\ [](OkRequests # {} =>
              confirmed = log[CHOOSE i \in OkRequests :
                                  \A j \in OkRequests : j <= i].n)
    /\ [][IF Requests /\ Last(log').r = "Ok"
          THEN confirmed' = Last(log').n
          ELSE confirmed' = confirmed]_vars
    /\ [][(log = <<>> /\ log' # <<>>) =>
              (log'[1].t = "poll" /\ log'[1].n = confirmed)]_vars

\* the second listen call polls at the offset confirmed by the first one,
\* and its failed requests leave confirmed there
C19_Witness ==
    /\ runs = 2
    /\ Len(log) >= 2
    /\ OkRequests = {}
    /\ log[1].n = FirstId + 1
    /\ confirmed = FirstId + 1

\* C20: within a run with ascending batches, every offset sent to the remote
\* side (polling or force-acknowledge) is at most the identifier of every
\* update the remote side returned and the handler has not returned Ok for:
\* no update is acknowledged before the handler returned Ok for it.
C20_NoEarlyAck ==
    \A q \in Idx("poll") \cup Idx("fack") :
        \A p \in PollOk :
            p < q =>
                \A k \in 1..Len(log[p].b) :
                    \/ \E j \in Idx("call") :
                           j < q /\ log[j].n = log[p].b[k] /\ log[j].r # "Err"
                    \/ log[q].n <= log[p].b[k]

\* an error on the second of three updates: the force-acknowledge offset is
\* that update's identifier, not above it or the unhandled third
C20_Witness ==
    /\ Len(log) = 4
    /\ log[1].t = "poll" /\ log[1].b = <<FirstId, FirstId + 1, FirstId + 2>>
    /\ log[2].r = "Continue"
    /\ EndsWith(log, FirstId + 1, HandlerErr, FirstId + 1)

\* position of the call at index i among the handler calls of the run
CallRank(i) == Cardinality({j \in Idx("call") : j <= i})

\* the handler call at index i put its update on the update channel: the
\* sends of a run succeed in call order and a failed send ends the run, so
\* the successful sends are those of the first evSent calls
Delivered(i) == CallRank(i) <= evSent

\* C21: in channel mode every update with an identifier below an offset the
\* worker sent to the remote side was successfully sent on the update
\* channel before that offset was sent, also when the consumer dropped the
\* update receiver.
C21_Delivered ==
    \A q \in Idx("poll") \cup Idx("fack") :
        \A p \in PollOk :
            p < q =>
                \A k \in 1..Len(log[p].b) :
                    log[p].b[k] < log[q].n =>
                        \E j \in Idx("call") :
                            /\ j < q
                            /\ log[j].n = log[p].b[k]
                            /\ Delivered(j)

\* C22: in channel mode the result the worker receives for an update is the
\* handler's result for that update: after consuming Ok(Stop) or Err the
\* worker sends the force-acknowledge fetch and returns, sending no further
\* update and issuing no further polling fetch; after Ok(Continue) it goes
\* on to the next update of the batch or, at its end, to the next fetch.
C22_AckIsResult ==
    /\ [][ackRecv' = ackRecv + 1 =>
              LET a == Head(res_ch)
                  u == NextUpdate(updates) IN
              /\ pc = "recv"
              /\ log'[Len(log) + 1] = CallEntry(u, a)
              /\ evSent' = evSent
              /\ IF a = Continue
                 THEN /\ Len(log') = Len(log) + 1
                      /\ updates' = Tail(updates)
                      /\ pc' = IF Tail(updates) = <<>> THEN "poll"
                                                       ELSE "dispatch"
                      /\ ret' = NoRet
                 ELSE /\ Len(log') = Len(log) + 2
                      /\ Last(log').t = "fack"
                      /\ pc' = "returned"
                      /\ ret'.tag \in {"Ok", "Err"}]_vars
    /\ [][pc = "returned" =>
              (pc' = "returned" /\ evSent' = evSent /\ log' = log)]_vars

\* a Continue was consumed for the first update and an Err for the second;
\* the worker returned after two sends, its last request the
\* force-acknowledge fetch, and the consumer acted afterwards
C22_Witness ==
    /\ ackRecv = 2 /\ evSent = 2
    /\ pc = "returned"
    /\ Cardinality(Idx("call")) = 2
    /\ \E i \in Idx("call") : log[i].r = "Continue"
    /\ log[Len(log) - 1].r = "Err"
    /\ Last(log).t = "fack"
    /\ rxDropped

====
